---------------------------- MODULE Spec2Model ----------------------------
(***************************************************************************)
(* A model of vic.py: the conversion of measured S-parameters into an      *)
(* impedance sweep.  The script is one linear pipeline:                    *)
(*   load the touchstone file, resolve z0, extract the arrays, select the  *)
(*   channel, apply the formula, export the CSV file, optionally plot.     *)
(*                                                                         *)
(* Numbers.  The script computes with IEEE-754 complex doubles (a python   *)
(* complex z0 against numpy complex arrays).  A component is modelled as   *)
(* an extended rational n/d with d >= 0, in lowest terms:                  *)
(*     d > 0          the finite value n/d                                 *)
(*     n =  1, d = 0  +inf                                                 *)
(*     n = -1, d = 0  -inf                                                 *)
(*     n =  0, d = 0  nan                                                  *)
(* with the IEEE rules for inf and nan.  Rounding and the sign of zero are *)
(* not modelled: finite arithmetic is exact.                               *)
(***************************************************************************)
EXTENDS Integers, Sequences, FiniteSets, TLC

----------------------------------------------------------------------------
(* Extended rationals: one component of a complex double.                  *)

Abs(n) == IF n < 0 THEN -n ELSE n

Sign(n) == IF n < 0 THEN -1 ELSE IF n > 0 THEN 1 ELSE 0

RECURSIVE GCD(_, _)
GCD(a, b) == IF b = 0 THEN a ELSE GCD(b, a % b)

\* The finite value n/d (d # 0) in lowest terms with a positive denominator.
Norm(n, d) ==
    LET g == GCD(Abs(n), Abs(d))
        s == IF d < 0 THEN -1 ELSE 1
    IN  [n |-> (s * n) \div g, d |-> Abs(d) \div g]

Rat(n, d) == Norm(n, d)
Int2R(n)  == [n |-> n, d |-> 1]
PosInf    == [n |-> 1, d |-> 0]
NegInf    == [n |-> -1, d |-> 0]
NaN       == [n |-> 0, d |-> 0]

IsNaN(x)    == x.d = 0 /\ x.n = 0
IsInf(x)    == x.d = 0 /\ x.n # 0
IsFinite(x) == x.d > 0
IsZero(x)   == x.d > 0 /\ x.n = 0

SignedInf(s) == IF s < 0 THEN NegInf ELSE PosInf

RNeg(x) == [n |-> -x.n, d |-> x.d]

RAbs(x) == [n |-> Abs(x.n), d |-> x.d]

RAdd(x, y) ==
    IF IsNaN(x) \/ IsNaN(y) THEN NaN
    ELSE IF IsInf(x) THEN (IF IsInf(y) /\ y.n # x.n THEN NaN ELSE x)
    ELSE IF IsInf(y) THEN y
    ELSE Norm(x.n * y.d + y.n * x.d, x.d * y.d)

RSub(x, y) == RAdd(x, RNeg(y))

RMul(x, y) ==
    IF IsNaN(x) \/ IsNaN(y) THEN NaN
    ELSE IF IsInf(x) \/ IsInf(y)
         THEN (IF x.n = 0 \/ y.n = 0 THEN NaN ELSE SignedInf(Sign(x.n) * Sign(y.n)))
    ELSE Norm(x.n * y.n, x.d * y.d)

\* IEEE division of doubles: x/0 is a signed infinity, 0/0 and inf/inf are nan.
RDiv(x, y) ==
    IF IsNaN(x) \/ IsNaN(y) THEN NaN
    ELSE IF IsInf(y) THEN (IF IsInf(x) THEN NaN ELSE Int2R(0))
    ELSE IF IsZero(y) THEN (IF x.n = 0 THEN NaN ELSE SignedInf(Sign(x.n)))
    ELSE IF IsInf(x) THEN SignedInf(Sign(x.n) * Sign(y.n))
    ELSE Norm(x.n * y.d, x.d * y.n)

\* x >= y on doubles: false as soon as one side is nan.
RGeq(x, y) ==
    IF IsNaN(x) \/ IsNaN(y) THEN FALSE
    ELSE IF IsInf(x) THEN (x.n = 1 \/ y = x)
    ELSE IF IsInf(y) THEN y.n = -1
    ELSE x.n * y.d >= y.n * x.d

----------------------------------------------------------------------------
(* Complex doubles.                                                        *)

Cx(re, im) == [re |-> re, im |-> im]
CInt(n)    == Cx(Int2R(n), Int2R(0))
CZero      == CInt(0)
COne       == CInt(1)
CTwo       == CInt(2)
CJ         == Cx(Int2R(0), Int2R(1))

CFinite(c) == IsFinite(c.re) /\ IsFinite(c.im)

CAdd(a, b) == Cx(RAdd(a.re, b.re), RAdd(a.im, b.im))

CSub(a, b) == Cx(RSub(a.re, b.re), RSub(a.im, b.im))

CMul(a, b) ==
    Cx(RSub(RMul(a.re, b.re), RMul(a.im, b.im)),
       RAdd(RMul(a.re, b.im), RMul(a.im, b.re)))

\* The clamping division: a mutant of CDiv that hides a zero divisor behind
\* a finite value instead of letting the result diverge.
CDivClamped(a, b) ==
    IF IsZero(b.re) /\ IsZero(b.im) THEN CZero
    ELSE LET den == RAdd(RMul(b.re, b.re), RMul(b.im, b.im))
         IN  Cx(RDiv(RAdd(RMul(a.re, b.re), RMul(a.im, b.im)), den),
                RDiv(RSub(RMul(a.im, b.re), RMul(a.re, b.im)), den))

\* Division of complex doubles in an array expression (Smith's method, as
\* the array library evaluates `/`): a zero divisor raises nothing, each
\* component is divided by |0| and comes out inf or nan.
CDiv(a, b) ==
    LET rabs == RAbs(b.re)
        iabs == RAbs(b.im)
    IN  IF RGeq(rabs, iabs)
        THEN IF IsZero(rabs) /\ IsZero(iabs)
             THEN Cx(RDiv(a.re, rabs), RDiv(a.im, rabs))
             ELSE LET rat == RDiv(b.im, b.re)
                      scl == RDiv(Int2R(1), RAdd(b.re, RMul(b.im, rat)))
                  IN  Cx(RMul(RAdd(a.re, RMul(a.im, rat)), scl),
                         RMul(RSub(a.im, RMul(a.re, rat)), scl))
        ELSE LET rat == RDiv(b.re, b.im)
                 scl == RDiv(Int2R(1), RAdd(b.im, RMul(b.re, rat)))
             IN  Cx(RMul(RAdd(RMul(a.re, rat), a.im), scl),
                    RMul(RSub(RMul(a.im, rat), a.re), scl))

----------------------------------------------------------------------------
(* The impedance formulas, applied to one sample.                          *)

\* z0 * ((1 + s11) / (1 - s11))
s11_shunt_impedance(z, s11) ==
    CMul(z, CDiv(CAdd(COne, s11), CSub(COne, s11)))

\* Mutant of s21_series_impedance: the factor 2 misplaced, 2 * (z0 - s21) / s21.
s21_series_misplaced(z, s21) ==
    CDiv(CMul(CTwo, CSub(z, s21)), s21)

\* z0 * (2 * (1 - s21)) / (s21)
s21_series_impedance(z, s21) ==
    CDiv(CMul(z, CMul(CTwo, CSub(COne, s21))), s21)

\* Mutant of s21_shunt_through_impedance: the factor s21 dropped.
s21_shunt_through_dropped(z, s21) ==
    CDiv(z, CMul(CTwo, CSub(COne, s21)))

\* (z0 * s21) / (2 * (1 - s21))
s21_shunt_through_impedance(z, s21) ==
    CDiv(CMul(z, s21), CMul(CTwo, CSub(COne, s21)))

----------------------------------------------------------------------------
(* Bounds and input domains.                                               *)

\* The longest frequency sweep a touchstone file of the model holds.
MaxPoints == 2

\* class MeasurementType(Enum)
MeasurementType == {"s11_shunt", "s21_series", "s21_shunt_through"}

\* A value that is no member of MeasurementType (the selector's else branch).
OtherTypes == {"s12_other"}

\* args.z0 when -z is not given.
None == [tag |-> "None"]

Half == Cx(Rat(1, 2), Int2R(0))

\* Values -z can carry: type=complex also parses "inf".
ExplicitZ0Values == {CZero, CInt(50), Cx(Int2R(1), Int2R(1)), Cx(PosInf, Int2R(0))}

\* Port impedances a touchstone file can embed.
EmbeddedZ0Values == {CInt(50), CInt(75)}

\* S-parameter samples of a sweep.
SValues == {CZero, COne, Half, CJ}

\* S11 samples of a two-port file (its S21 ranges over SValues).
S11TwoPortValues == {CZero, COne}

\* Frequency sweeps of length n: strictly increasing.
Sweeps(n) == {[i \in 1..n |-> 10 * i]}

\* One frequency point of a file of the given rank: element [out][in] of the
\* rank x rank matrix, ports numbered from 0 as the array indexes them.
PointMatrices(rank) ==
    IF rank = 1
    THEN {[p \in {<<0, 0>>} |-> s] : s \in SValues}
    ELSE {[p \in {<<0, 0>>, <<0, 1>>, <<1, 0>>, <<1, 1>>} |->
              IF p = <<0, 0>> THEN s11 ELSE IF p = <<1, 0>> THEN s21 ELSE CZero]
          : s11 \in S11TwoPortValues, s21 \in SValues}

\* What touchstone.get_sparameter_arrays() can return: (frequencies, s_arrays).
SParameterArrays(rank) ==
    UNION {[f : Sweeps(n), s : [1..n -> PointMatrices(rank)]] : n \in 0..MaxPoints}

\* The port counts of the files the model reads (.s1p, .s2p).
Ranks == {1, 2}

\* The Touchstone object before and after Touchstone(args.filename).
Unloaded == [loaded |-> FALSE, rank |-> 0]
Loaded(rank) == [loaded |-> TRUE, rank |-> rank]

----------------------------------------------------------------------------
(* State.                                                                  *)

VARIABLES
    pc,            \* the statement of __main__ about to run
    args,          \* the parsed command line: type, z0, plot
    touchstone,    \* the Touchstone object: loaded or not, and its port count
    z0,            \* None until resolved
    gamma_reads,   \* how many times touchstone.get_gamma_z0() was called
    frequencies,   \* sequence of frequencies
    s_arrays,      \* sequence of matrices, one per frequency
    branch,        \* the branch of the if/elif chain taken, "" before it
    selected,      \* the slice s_arrays[:, r, c] passed to the formula
    impedances,    \* sequence of complex values
    output_file,   \* "unopened", "open" or "closed": the handle of the with block
    file_rows,     \* the rows written to args.output
    row,           \* index of the pair the for loop writes next
    stdout,        \* messages printed
    stderr,        \* diagnostics printed to stderr
    exit_code,     \* -1 while running, then the process exit status
    chart_shown,   \* plt.show() was reached
    steps          \* history: the pipeline steps completed, in order

vars == <<pc, args, touchstone, z0, gamma_reads, frequencies, s_arrays, branch,
          selected, impedances, output_file, file_rows, row, stdout, stderr,
          exit_code, chart_shown, steps>>

\* args = argument_parser.parse_args(): --type is restricted to
\* choices=list(MeasurementType), --z0 defaults to None, --plot to False.
ParsedArgs ==
    [type : MeasurementType, z0 : ExplicitZ0Values \cup {None}, plot : BOOLEAN]

\* Arguments with a type the command line cannot produce.
UncheckedArgs ==
    [type : MeasurementType \cup OtherTypes, z0 : ExplicitZ0Values \cup {None},
     plot : BOOLEAN]

Start(argset) ==
    /\ args \in argset
    /\ pc = "load"
    /\ touchstone = Unloaded
    /\ z0 = None
    /\ gamma_reads = 0
    /\ frequencies = <<>>
    /\ s_arrays = <<>>
    /\ branch = ""
    /\ selected = <<>>
    /\ impedances = <<>>
    /\ output_file = "unopened"
    /\ file_rows = <<>>
    /\ row = 1
    /\ stdout = <<>>
    /\ stderr = <<>>
    /\ exit_code = -1
    /\ chart_shown = FALSE
    /\ steps = <<>>

Init == Start(ParsedArgs)

\* sys_exit(status), or an uncaught exception (status 1, traceback on stderr).
Exit(status) ==
    /\ pc' = "exit"
    /\ exit_code' = status

\* An exception no handler catches: the interpreter prints the traceback on
\* stderr and the process ends with status 1.
Uncaught(what) ==
    /\ stderr' = Append(stderr, "Traceback: " \o what)
    /\ Exit(1)

----------------------------------------------------------------------------
(* The pipeline of __main__, one action per statement.                     *)

\* Mutant of LoadTouchstone: the handler reports the failure and forgets
\* sys_exit(1), so the run goes on without a parsed file.
LoadTouchstoneNoExit ==
    /\ pc = "load"
    /\ \/ /\ \E rank \in Ranks : touchstone' = Loaded(rank)
          /\ stdout' = Append(stdout, "Loaded")
          /\ stderr' = stderr
       \/ /\ stderr' = Append(stderr, "Cannot open S-parameters file")
          /\ UNCHANGED <<touchstone, stdout>>
    /\ steps' = Append(steps, "load")
    /\ pc' = "resolve"
    /\ UNCHANGED <<args, z0, gamma_reads, frequencies, s_arrays, branch, selected,
                   impedances, output_file, file_rows, row, exit_code, chart_shown>>

\* try: touchstone = Touchstone(args.filename)
\* except Exception: print('Cannot open S-parameters file', file=stderr); sys_exit(1)
LoadTouchstone ==
    /\ pc = "load"
    /\ \/ /\ \E rank \in Ranks : touchstone' = Loaded(rank)
          /\ stdout' = Append(stdout, "Loaded")
          /\ steps' = Append(steps, "load")
          /\ pc' = "resolve"
          /\ UNCHANGED <<stderr, exit_code>>
       \/ /\ stderr' = Append(stderr, "Cannot open S-parameters file")
          /\ Exit(1)
          /\ UNCHANGED <<touchstone, stdout, steps>>
    /\ UNCHANGED <<args, z0, gamma_reads, frequencies, s_arrays, branch, selected,
                   impedances, output_file, file_rows, row, chart_shown>>

\* Mutant of ExplicitZ0Given: the truth value of args.z0 (`if args.z0:`), which
\* takes an explicit 0 for an absent value.
ExplicitZ0Truthy(a) == a.z0 # None /\ a.z0 # CZero

\* if args.z0 is not None
ExplicitZ0Given(a) == a.z0 # None

\* The resolved z0 is announced: 'System impedance (z0)', 'Measurement type'.
Announce(out, how) ==
    out \o <<how, "System impedance (z0)", "Measurement type">>

\* z0 = args.z0; print('Using command line supplied system impedance')
UseExplicitZ0 ==
    /\ pc = "resolve"
    /\ ExplicitZ0Given(args)
    /\ z0' = args.z0
    /\ stdout' = Announce(stdout, "Using command line supplied system impedance")
    /\ steps' = Append(steps, "resolve")
    /\ pc' = "extract"
    /\ UNCHANGED <<args, touchstone, gamma_reads, frequencies, s_arrays, branch,
                   selected, impedances, output_file, file_rows, row, stderr,
                   exit_code, chart_shown>>

\* Mutant of UseEmbeddedZ0: the handler reports the failure and forgets
\* sys_exit(1), so the run goes on with no z0.
UseEmbeddedZ0NoExit ==
    /\ pc = "resolve"
    /\ ~ExplicitZ0Given(args)
    /\ gamma_reads' = gamma_reads + 1
    /\ \/ /\ \E z \in EmbeddedZ0Values : z0' = z
          /\ stdout' = Announce(stdout, "Using touchstone system impedance")
          /\ stderr' = stderr
       \/ /\ stderr' = Append(stderr, "Unknown system impedance, use -z")
          /\ UNCHANGED <<z0, stdout>>
    /\ steps' = Append(steps, "resolve")
    /\ pc' = "extract"
    /\ UNCHANGED <<args, touchstone, frequencies, s_arrays, branch, selected,
                   impedances, output_file, file_rows, row, exit_code, chart_shown>>

\* try: _, z0 = touchstone.get_gamma_z0(); print('Using touchstone system impedance')
\* except: print('Unknown system impedance, use -z', file=stderr); sys_exit(1)
UseEmbeddedZ0 ==
    /\ pc = "resolve"
    /\ ~ExplicitZ0Given(args)
    /\ gamma_reads' = gamma_reads + 1
    /\ \/ /\ \E z \in EmbeddedZ0Values : z0' = z
          /\ stdout' = Announce(stdout, "Using touchstone system impedance")
          /\ steps' = Append(steps, "resolve")
          /\ pc' = "extract"
          /\ UNCHANGED <<stderr, exit_code>>
       \/ /\ stderr' = Append(stderr, "Unknown system impedance, use -z")
          /\ Exit(1)
          /\ UNCHANGED <<z0, stdout, steps>>
    /\ UNCHANGED <<args, touchstone, frequencies, s_arrays, branch, selected,
                   impedances, output_file, file_rows, row, chart_shown>>

\* frequencies, s_arrays = touchstone.get_sparameter_arrays()
\* The call stands outside every try block: if it raises, the exception is
\* uncaught.
GetSParameterArrays ==
    /\ pc = "extract"
    /\ \/ /\ \E a \in SParameterArrays(touchstone.rank) :
                /\ frequencies' = a.f
                /\ s_arrays' = a.s
          /\ steps' = Append(steps, "extract")
          /\ pc' = "select"
          /\ UNCHANGED <<stderr, exit_code>>
       \/ /\ Uncaught("get_sparameter_arrays")
          /\ UNCHANGED <<frequencies, s_arrays, steps>>
    /\ UNCHANGED <<args, touchstone, z0, gamma_reads, branch, selected, impedances,
                   output_file, file_rows, row, stdout, chart_shown>>

\* Mutant of Branch: the last elif written as a plain else, so that any other
\* value is silently computed as shunt-through.
BranchNoElse(type) ==
    IF type = "s11_shunt" THEN "s11_shunt"
    ELSE IF type = "s21_series" THEN "s21_series"
    ELSE "s21_shunt_through"

\* The if/elif/else chain on args.type: the branch taken.
Branch(type) ==
    IF type = "s11_shunt" THEN "s11_shunt"
    ELSE IF type = "s21_series" THEN "s21_series"
    ELSE IF type = "s21_shunt_through" THEN "s21_shunt_through"
    ELSE "unknown"

\* The [r, c] of the slice s_arrays[:, r, c] each branch passes to its formula.
ChannelIndex(b) ==
    IF b = "s11_shunt" THEN <<0, 0>> ELSE <<1, 0>>

\* s_arrays[:, r, c]
Slice(arr, idx) == [i \in 1..Len(arr) |-> arr[i][idx]]

\* The formula each branch calls, on one sample.
Formula(b, z, s) ==
    IF b = "s11_shunt" THEN s11_shunt_impedance(z, s)
    ELSE IF b = "s21_series" THEN s21_series_impedance(z, s)
    ELSE s21_shunt_through_impedance(z, s)

\* The argument of the call is evaluated first: the slice of the branch taken.
\* An index beyond the file's port count raises IndexError, uncaught.  The
\* else branch reports the unknown type and exits.
SelectChannel ==
    /\ pc = "select"
    /\ LET b == Branch(args.type)
           idx == ChannelIndex(b)
       IN  IF b = "unknown"
           THEN /\ stderr' = Append(stderr, "Unknown measurement type")
                /\ Exit(1)
                /\ UNCHANGED <<branch, selected, steps>>
           ELSE IF idx[1] >= touchstone.rank \/ idx[2] >= touchstone.rank
           THEN /\ Uncaught("IndexError")
                /\ UNCHANGED <<branch, selected, steps>>
           ELSE /\ branch' = b
                /\ selected' = Slice(s_arrays, idx)
                /\ steps' = Append(steps, "select")
                /\ pc' = "compute"
                /\ UNCHANGED <<stderr, exit_code>>
    /\ UNCHANGED <<args, touchstone, z0, gamma_reads, frequencies, s_arrays,
                   impedances, output_file, file_rows, row, stdout, chart_shown>>

\* impedances = <formula>(z0, <slice>): elementwise over the frequency axis.
ComputeImpedances ==
    /\ pc = "compute"
    /\ impedances' = [i \in 1..Len(selected) |-> Formula(branch, z0, selected[i])]
    /\ steps' = Append(steps, "compute")
    /\ pc' = "open"
    /\ UNCHANGED <<args, touchstone, z0, gamma_reads, frequencies, s_arrays, branch,
                   selected, output_file, file_rows, row, stdout, stderr, exit_code,
                   chart_shown>>

----------------------------------------------------------------------------
(* The CSV export: with open(args.output, 'w') as output_file: ...         *)

\* str() of one double, as csv.writer renders a field.  A finite value n/d
\* is written as its numeral.
FloatStr(x) ==
    IF IsNaN(x) THEN "nan"
    ELSE IF IsInf(x) THEN (IF x.n > 0 THEN "inf" ELSE "-inf")
    ELSE IF x.d = 1 THEN ToString(x.n)
    ELSE ToString(x.n) \o "/" \o ToString(x.d)

\* str() of a complex: '(re+imj)', or 'imj' when the real part is zero.
ComplexStr(c) ==
    IF IsZero(c.re)
    THEN FloatStr(c.im) \o "j"
    ELSE "(" \o FloatStr(c.re)
             \o (IF c.im.n < 0 THEN "" ELSE "+")
             \o FloatStr(c.im) \o "j)"

Min(a, b) == IF a < b THEN a ELSE b

\* Mutant of Zip: an off-by-one that loses the last pair.
ZipDropLast(fs, zs) ==
    [i \in 1..(Min(Len(fs), Len(zs)) - 1) |-> <<fs[i], zs[i]>>]

\* zip(frequencies, impedances): pairs up to the shorter of the two.
Zip(fs, zs) == [i \in 1..Min(Len(fs), Len(zs)) |-> <<fs[i], zs[i]>>]

\* output_writer.writerow([frequency, impedance]): one record of two fields.
CsvRow(pair) == <<FloatStr(Int2R(pair[1])), ComplexStr(pair[2])>>

\* Mutant of WithExit: a bare open() with no with block and no close().
WithExitLeak(handle) == handle

\* The state of the handle when the with block is left, normally or by an
\* exception: __exit__ closes it.
WithExit(handle) == "closed"

\* open(args.output, 'w'); print('Storing impedance data to ...')
\* open() may raise (OSError): uncaught, no handle was acquired.
OpenOutput ==
    /\ pc = "open"
    /\ \/ /\ output_file' = "open"
          /\ file_rows' = <<>>
          /\ stdout' = Append(stdout, "Storing impedance data")
          /\ pc' = "write"
          /\ UNCHANGED <<stderr, exit_code>>
       \/ /\ Uncaught("open")
          /\ UNCHANGED <<output_file, file_rows, stdout>>
    /\ UNCHANGED <<args, touchstone, z0, gamma_reads, frequencies, s_arrays, branch,
                   selected, impedances, row, chart_shown, steps>>

\* One iteration of the for loop.  writerow may raise (an I/O error): the
\* with block is left by the exception, which is then uncaught.
WriteRow ==
    /\ pc = "write"
    /\ row <= Len(Zip(frequencies, impedances))
    /\ \/ /\ file_rows' = Append(file_rows, CsvRow(Zip(frequencies, impedances)[row]))
          /\ row' = row + 1
          /\ UNCHANGED <<output_file, pc, stderr, exit_code>>
       \/ /\ output_file' = WithExit(output_file)
          /\ Uncaught("writerow")
          /\ UNCHANGED <<file_rows, row>>
    /\ UNCHANGED <<args, touchstone, z0, gamma_reads, frequencies, s_arrays, branch,
                   selected, impedances, stdout, chart_shown, steps>>

\* The loop is exhausted and the with block is left normally.
CloseOutput ==
    /\ pc = "write"
    /\ row > Len(Zip(frequencies, impedances))
    /\ output_file' = WithExit(output_file)
    /\ steps' = Append(steps, "export")
    /\ pc' = "plot"
    /\ UNCHANGED <<args, touchstone, z0, gamma_reads, frequencies, s_arrays, branch,
                   selected, impedances, file_rows, row, stdout, stderr, exit_code,
                   chart_shown>>

----------------------------------------------------------------------------
(* The optional chart, and the end of the script.                          *)

\* Mutant of PlotRequested: the chart is shown unconditionally.
PlotAlways(a) == TRUE

\* if args.plot
PlotRequested(a) == a.plot

\* if args.plot: ... plt.show(); then the script ends, status 0.
ShowPlot ==
    /\ pc = "plot"
    /\ PlotRequested(args)
    /\ chart_shown' = TRUE
    /\ steps' = Append(steps, "visualize")
    /\ Exit(0)
    /\ UNCHANGED <<args, touchstone, z0, gamma_reads, frequencies, s_arrays, branch,
                   selected, impedances, output_file, file_rows, row, stdout, stderr>>

\* --plot was not given: the script ends, status 0.
Finish ==
    /\ pc = "plot"
    /\ ~PlotRequested(args)
    /\ Exit(0)
    /\ UNCHANGED <<args, touchstone, z0, gamma_reads, frequencies, s_arrays, branch,
                   selected, impedances, output_file, file_rows, row, stdout, stderr,
                   chart_shown, steps>>

Next ==
    \/ LoadTouchstone
    \/ UseExplicitZ0
    \/ UseEmbeddedZ0
    \/ GetSParameterArrays
    \/ SelectChannel
    \/ ComputeImpedances
    \/ OpenOutput
    \/ WriteRow
    \/ CloseOutput
    \/ ShowPlot
    \/ Finish

\* Every run the command line can start.
Spec == Init /\ [][Next]_vars

\* The same pipeline entered with a type outside the enumeration as well: the
\* selector's defensive branch, which the command line cannot reach.
InitAnyType == Start(UncheckedArgs)

SpecAnyType == InitAnyType /\ [][Next]_vars

----------------------------------------------------------------------------
(* Vocabulary of the properties.                                           *)

\* The pipeline step has completed.
Done(step) == \E i \in DOMAIN steps : steps[i] = step

\* The diagnostic was printed on stderr.
Reported(msg) == \E i \in DOMAIN stderr : stderr[i] = msg

\* The S-parameter sample [r, c] at frequency index i.
Sample(i, r, c) == s_arrays[i][<<r, c>>]

\* The channel the specification assigns to each topology.
SpecSample(i) ==
    IF args.type = "s11_shunt" THEN Sample(i, 0, 0) ELSE Sample(i, 1, 0)

\* Nothing of the computation or the export has happened.
NothingComputed ==
    /\ branch = ""
    /\ selected = <<>>
    /\ impedances = <<>>
    /\ output_file = "unopened"
    /\ file_rows = <<>>
    /\ ~chart_shown

PipelineOrder ==
    <<"load", "resolve", "extract", "select", "compute", "export", "visualize">>

----------------------------------------------------------------------------
(* C1.  When an explicit z0 is given on the command line, it is the z0 of   *)
(* the run: the resolved z0 equals args.z0, every impedance is the formula  *)
(* of the topology applied to args.z0, the explicit value is announced, and *)
(* the embedded value is never read (get_gamma_z0 is not called), so a      *)
(* failing embedded read cannot matter.                                     *)
ExplicitZ0Precedence ==
    args.z0 # None =>
        /\ gamma_reads = 0
        /\ ~Reported("Unknown system impedance, use -z")
        /\ Done("resolve") =>
              /\ z0 = args.z0
              /\ stdout[2] = "Using command line supplied system impedance"
        /\ Done("compute") =>
              \A i \in DOMAIN impedances :
                  impedances[i] = Formula(args.type, args.z0, SpecSample(i))

ExplicitZ0Used ==
    /\ args.z0 = CZero
    /\ args.type = "s11_shunt"
    /\ Done("compute")
    /\ \E i \in DOMAIN impedances : Sample(i, 0, 0) = Half

----------------------------------------------------------------------------
(* C2.  When no explicit z0 is given and the embedded read fails (the read  *)
(* was made and left z0 unresolved), the run has ended with status 1 and    *)
(* the diagnostic 'Unknown system impedance, use -z', and no channel was    *)
(* selected, no impedance computed, and the output file never opened.       *)
(* More generally nothing is selected while z0 is unresolved, and a run     *)
(* that went past the resolution without an explicit z0 read the embedded   *)
(* value exactly once and holds it.                                         *)
EmbeddedReadFailed == args.z0 = None /\ gamma_reads > 0 /\ z0 = None

ReferenceImpedanceUnavailable ==
    /\ EmbeddedReadFailed =>
          /\ pc = "exit"
          /\ exit_code = 1
          /\ stderr = <<"Unknown system impedance, use -z">>
          /\ steps = <<"load">>
          /\ NothingComputed
    /\ z0 = None => NothingComputed
    /\ (args.z0 = None /\ Done("resolve")) =>
          /\ gamma_reads = 1
          /\ z0 \in EmbeddedZ0Values
          /\ stderr = <<>> \/ pc = "exit"

UnresolvedRunEnded == EmbeddedReadFailed /\ pc = "exit"

----------------------------------------------------------------------------
(* C3.  The statement as claimed: every failure to open, parse or extract   *)
(* the input ends the run with a diagnostic and a non-zero status before    *)
(* z0 resolution, channel selection, computation and export.                *)
LoadFailed == ~touchstone.loaded /\ stderr # <<>>

ExtractFailed == Reported("Traceback: get_sparameter_arrays")

InputUnreadableBeforeResolution ==
    (LoadFailed \/ ExtractFailed) =>
        /\ pc = "exit"
        /\ exit_code = 1
        /\ stderr # <<>>
        /\ z0 = None
        /\ ~Done("resolve")
        /\ NothingComputed

(* C3, amended.  A failure of Touchstone(args.filename) ends the run with   *)
(* 'Cannot open S-parameters file' on stderr and status 1 before z0         *)
(* resolution, selection, computation and export.  A failure of             *)
(* get_sparameter_arrays ends the run with a traceback on stderr and        *)
(* status 1 before selection, computation and export, but after z0 has      *)
(* been resolved.                                                           *)
InputUnreadable ==
    /\ LoadFailed =>
          /\ pc = "exit"
          /\ exit_code = 1
          /\ stderr = <<"Cannot open S-parameters file">>
          /\ z0 = None
          /\ gamma_reads = 0
          /\ steps = <<>>
          /\ NothingComputed
    /\ ExtractFailed =>
          /\ pc = "exit"
          /\ exit_code = 1
          /\ z0 # None
          /\ steps = <<"load", "resolve">>
          /\ NothingComputed

ExtractFailedAfterResolution == ExtractFailed /\ pc = "exit" /\ z0 = CInt(75)

----------------------------------------------------------------------------
(* C4.  The selector takes channel [:,0,0] for s11_shunt and channel        *)
(* [:,1,0] for s21_series and s21_shunt_through, one branch per run, and    *)
(* the impedance satisfies the formula of the topology.  The formula is     *)
(* stated cross-multiplied, for a finite z0 away from the singular sample:  *)
(*   s11_shunt          Z * (1 - S11)     = z0 * (1 + S11)                  *)
(*   s21_series         Z * S21           = 2 * z0 * (1 - S21)              *)
(*   s21_shunt_through  Z * 2 * (1 - S21) = z0 * S21                        *)
SatisfiesFormula(type, z, s, imp) ==
    IF type = "s11_shunt"
    THEN s # COne => CMul(imp, CSub(COne, s)) = CMul(z, CAdd(COne, s))
    ELSE IF type = "s21_series"
    THEN s # CZero => CMul(imp, s) = CMul(CMul(CTwo, z), CSub(COne, s))
    ELSE s # COne => CMul(imp, CMul(CTwo, CSub(COne, s))) = CMul(z, s)

TopologySelection ==
    /\ Done("select") =>
          /\ branch = args.type
          /\ Len(selected) = Len(s_arrays)
          /\ \A i \in DOMAIN selected :
                selected[i] = IF args.type = "s11_shunt"
                              THEN Sample(i, 0, 0)
                              ELSE Sample(i, 1, 0)
    /\ Done("compute") =>
          /\ Len(impedances) = Len(s_arrays)
          /\ \A i \in DOMAIN impedances :
                CFinite(z0) =>
                    SatisfiesFormula(args.type, z0, SpecSample(i), impedances[i])

SeriesComputed ==
    /\ Done("compute")
    /\ args.type = "s21_series"
    /\ z0 = CInt(50)
    /\ \E i \in DOMAIN impedances :
          /\ Sample(i, 1, 0) = Half
          /\ Sample(i, 0, 0) = COne
          /\ impedances[i] = CInt(100)

----------------------------------------------------------------------------
(* C5.  The exporter writes the pairs index for index: at every moment the  *)
(* rows written are the first rows of the sweep, row i holding frequency i  *)
(* and impedance i as text, and once the export has completed there are     *)
(* exactly N rows for the N frequencies and N impedances, in the ascending  *)
(* order of the sweep.                                                      *)
ExpectedRow(i) == <<FloatStr(Int2R(frequencies[i])), ComplexStr(impedances[i])>>

ExportPairing ==
    /\ Len(file_rows) <= Len(frequencies)
    /\ Len(file_rows) <= Len(impedances)
    /\ \A i \in DOMAIN file_rows : file_rows[i] = ExpectedRow(i)
    /\ \A i, j \in DOMAIN frequencies : i < j => frequencies[i] < frequencies[j]
    /\ Done("export") =>
          /\ Len(impedances) = Len(frequencies)
          /\ Len(file_rows) = Len(frequencies)

TwoRowsExported ==
    /\ Done("export")
    /\ Len(file_rows) = 2
    /\ file_rows[1] # file_rows[2]
    /\ file_rows[2] = <<"20", "(75/2+0j)">>

----------------------------------------------------------------------------
(* C6.  A singular sample (S11 = 1 for s11_shunt, S21 = 0 for s21_series,   *)
(* S21 = 1 for s21_shunt_through) gives a non-finite impedance at that      *)
(* frequency and no error: after the channel is selected the run can only   *)
(* end early by an I/O failure of the export, and a completed export holds  *)
(* the row of that frequency with the non-finite value written as it is.    *)
Singular(type, s) ==
    IF type = "s21_series" THEN s = CZero ELSE s = COne

NonFiniteText(t) ==
    t \in {ComplexStr(Cx(a, b)) : a, b \in {NaN, PosInf, NegInf, Int2R(0)}}
          \ {ComplexStr(CZero)}

SingularityHandling ==
    /\ Done("compute") =>
          \A i \in DOMAIN impedances :
              Singular(args.type, SpecSample(i)) => ~CFinite(impedances[i])
    /\ (Done("select") /\ pc = "exit" /\ exit_code # 0) =>
          /\ Done("compute")
          /\ stderr \in {<<"Traceback: open">>, <<"Traceback: writerow">>}
    /\ Done("export") =>
          \A i \in DOMAIN s_arrays :
              Singular(args.type, SpecSample(i)) =>
                  /\ i \in DOMAIN file_rows
                  /\ NonFiniteText(file_rows[i][2])

SingularRowExported ==
    /\ exit_code = 0
    /\ args.type = "s11_shunt"
    /\ Len(file_rows) = 2
    /\ Sample(2, 0, 0) = COne
    /\ file_rows[2] = <<"20", "(nan+nanj)">>

----------------------------------------------------------------------------
----------------------------------------------------------------------------
(* C8.  The steps completed are always an initial part of the order load,   *)
(* resolve, extract, select, compute, export, visualize; z0 is resolved at  *)
(* most once; a run that ends with status 0 has written and closed the      *)
(* whole export; the chart is shown only when --plot was given and only     *)
(* after the export, and a run that ends with status 0 shows it exactly     *)
(* when --plot was given.                                                   *)
PipelineOrdered ==
    /\ Len(steps) <= Len(PipelineOrder)
    /\ \A i \in DOMAIN steps : steps[i] = PipelineOrder[i]
    /\ gamma_reads <= 1
    /\ exit_code = 0 =>
          /\ Done("export")
          /\ output_file = "closed"
          /\ Len(file_rows) = Len(frequencies)
          /\ chart_shown = args.plot
    /\ chart_shown => args.plot /\ Done("export")

ExportedWithoutPlot ==
    /\ exit_code = 0
    /\ ~args.plot
    /\ ~chart_shown
    /\ Len(file_rows) = 2
    /\ steps = <<"load", "resolve", "extract", "select", "compute", "export">>

----------------------------------------------------------------------------
(* C9.  The statement as claimed, for every z0: s11_shunt with S11 = 0      *)
(* gives z0, s21_series with S21 = 1 gives 0, s21_shunt_through with        *)
(* S21 = 0 gives 0.                                                         *)
BoundaryAt(i) ==
    /\ (args.type = "s11_shunt" /\ SpecSample(i) = CZero) => impedances[i] = z0
    /\ (args.type = "s21_series" /\ SpecSample(i) = COne) => impedances[i] = CZero
    /\ (args.type = "s21_shunt_through" /\ SpecSample(i) = CZero) =>
            impedances[i] = CZero

BoundaryValuesAnyZ0 ==
    Done("compute") => \A i \in DOMAIN impedances : BoundaryAt(i)

(* C9, amended.  The boundary values hold exactly for every finite z0.  (A  *)
(* z0 with an infinite or nan component, which -z accepts, gives nan        *)
(* components instead.)                                                     *)
BoundaryValues ==
    (Done("compute") /\ CFinite(z0)) => \A i \in DOMAIN impedances : BoundaryAt(i)

BoundaryComputed ==
    /\ Done("compute")
    /\ args.type = "s21_shunt_through"
    /\ z0 = Cx(Int2R(1), Int2R(1))
    /\ \E i \in DOMAIN impedances : Sample(i, 1, 0) = CZero /\ impedances[i] = CZero

----------------------------------------------------------------------------
(* C10.  For every member of MeasurementType the dispatch takes the branch  *)
(* of that member and 'Unknown measurement type' is never reported.  A      *)
(* value outside the enumeration, once it reaches the selector, is reported *)
(* on stderr and ends the run with status 1: nothing is selected or         *)
(* computed and the output file is never opened.                            *)
UnsupportedTopology ==
    /\ args.type \in MeasurementType =>
          /\ ~Reported("Unknown measurement type")
          /\ Done("select") => branch \in MeasurementType /\ branch = args.type
    /\ args.type \notin MeasurementType =>
          /\ NothingComputed
          /\ ~Done("select")
          /\ pc \notin {"compute", "open", "write", "plot"}
          /\ (pc = "exit" /\ Done("extract")) =>
                /\ exit_code = 1
                /\ stderr = <<"Unknown measurement type">>

UnknownTypeReported ==
    /\ args.type \notin MeasurementType
    /\ pc = "exit"
    /\ Done("extract")
    /\ Reported("Unknown measurement type")

=============================================================================
